---- MODULE Spec2Model ----
(***************************************************************************)
(* A model of the KYC document verification code:                          *)
(*   src/enhanced_gemini_verification.py  (GeminiDocumentVerifier)         *)
(*   src/integration_example.py           (compare_data_ai_powered)        *)
(*   src/gemini_verification_demo.py      (compare_with_reference)         *)
(*                                                                         *)
(* Texts are sequences of lexemes (one string per lexeme): the fence of    *)
(* three backticks, the word "json", white space, the JSON punctuation,    *)
(* the JSON literals, numerals and words.  Python values are pairs         *)
(* <<type, value>>; a dict is a function from keys to values.              *)
(***************************************************************************)
EXTENDS Integers, Sequences, FiniteSets, TLC

(***************************************************************************)
(* Python values                                                           *)
(***************************************************************************)
\* A Python value is the pair of its type and its value.
JV(t, v) == <<t, v>>
JNull == JV("null", 0)
JBool(b) == JV("bool", b)
JNum(n) == JV("num", n)
JStr(s) == JV("str", s)
JList(l) == JV("list", l)
JObj(d) == JV("obj", d)
EmptyDict == <<>>

\* d[key] = val, as json.loads and the fallback parser fill a dict: a repeated key
\* keeps the last value.
DictPut(d, key, val) == (key :> val) @@ d

\* x.get(key, default); on anything but a dict the attribute lookup raises.
DictGet(x, key, default) == IF key \in DOMAIN x[2] THEN x[2][key] ELSE default

\* bool(x)
Truthy(x) ==
    CASE x[1] = "null" -> FALSE
      [] x[1] = "bool" -> x[2]
      [] x[1] = "num" -> x[2] # 0
      [] x[1] = "str" -> x[2] # <<>>
      [] x[1] = "list" -> x[2] # <<>>
      [] x[1] = "obj" -> DOMAIN x[2] # {}
      [] OTHER -> TRUE

(***************************************************************************)
(* Lexemes                                                                 *)
(***************************************************************************)
\* The run of three backticks that opens and closes a fenced block.
FENCE == "<fence>"
TAG == "json"
NL == "\n"
SP == " "
TAB == "\t"
DQ == "\""
\* White space: what json.loads skips, \s matches and str.strip() removes.
Ws == {NL, SP, TAB}

\* The numerals the replies use, with their values.
NumVal(tok) ==
    CASE tok = "0" -> 0
      [] tok = "80" -> 80
      [] tok = "90" -> 90
      [] tok = "150" -> 150
      [] tok = "-5" -> 0 - 5
      [] OTHER -> 0
Numerals == {"0", "80", "90", "150", "-5"}

(***************************************************************************)
(* str operations                                                          *)
(***************************************************************************)
IsAt(s, sep, i) == i + Len(sep) - 1 <= Len(s) /\ SubSeq(s, i, i + Len(sep) - 1) = sep

\* sep in s
Contains(s, sep) == \E i \in 1..Len(s) : IsAt(s, sep, i)

\* The leftmost occurrence of sep in s at or after i; 0 when there is none.
RECURSIVE Find(_, _, _)
Find(s, sep, i) ==
    IF i + Len(sep) - 1 > Len(s) THEN 0
    ELSE IF IsAt(s, sep, i) THEN i
    ELSE Find(s, sep, i + 1)

\* s.split(sep): the pieces between the non-overlapping occurrences of sep, left
\* to right.
RECURSIVE Split(_, _)
Split(s, sep) ==
    LET p == Find(s, sep, 1)
    IN IF p = 0 THEN <<s>>
       ELSE <<SubSeq(s, 1, p - 1)>> \o Split(SubSeq(s, p + Len(sep), Len(s)), sep)

(***************************************************************************)
(* json.loads                                                              *)
(***************************************************************************)
ParseFail == [ok |-> FALSE, val |-> JNull, next |-> 0]
ParseOk(val, next) == [ok |-> TRUE, val |-> val, next |-> next]

RECURSIVE SkipWs(_, _)
SkipWs(s, i) == IF i <= Len(s) /\ s[i] \in Ws THEN SkipWs(s, i + 1) ELSE i

RECURSIVE ParseValue(_, _)
RECURSIVE ParseElems(_, _, _)
RECURSIVE ParseMembers(_, _, _)

\* A string starts at the quote s[i] and ends at the next quote.
ParseString(s, i) ==
    LET e == Find(s, <<DQ>>, i + 1)
    IN IF e = 0 THEN ParseFail ELSE ParseOk(JStr(SubSeq(s, i + 1, e - 1)), e + 1)

\* The value that starts at s[i].
ParseValue(s, i) ==
    IF i > Len(s) THEN ParseFail
    ELSE CASE s[i] = "null" -> ParseOk(JNull, i + 1)
           [] s[i] = "true" -> ParseOk(JBool(TRUE), i + 1)
           [] s[i] = "false" -> ParseOk(JBool(FALSE), i + 1)
           [] s[i] \in Numerals -> ParseOk(JNum(NumVal(s[i])), i + 1)
           [] s[i] = DQ -> ParseString(s, i)
           [] s[i] = "[" ->
                LET j == SkipWs(s, i + 1)
                IN IF j <= Len(s) /\ s[j] = "]" THEN ParseOk(JList(<<>>), j + 1)
                   ELSE ParseElems(s, j, <<>>)
           [] s[i] = "{" ->
                LET j == SkipWs(s, i + 1)
                IN IF j <= Len(s) /\ s[j] = "}" THEN ParseOk(JObj(EmptyDict), j + 1)
                   ELSE ParseMembers(s, j, EmptyDict)
           [] OTHER -> ParseFail

\* The elements of a list from s[i] on, acc holding those read so far.
ParseElems(s, i, acc) ==
    LET r == ParseValue(s, i)
        j == SkipWs(s, r.next)
    IN IF ~r.ok \/ j > Len(s) THEN ParseFail
       ELSE IF s[j] = "]" THEN ParseOk(JList(Append(acc, r.val)), j + 1)
       ELSE IF s[j] = "," THEN ParseElems(s, SkipWs(s, j + 1), Append(acc, r.val))
       ELSE ParseFail

\* The members of an object from s[i] on, acc holding those read so far.
ParseMembers(s, i, acc) ==
    IF i > Len(s) \/ s[i] # DQ THEN ParseFail
    ELSE LET k == ParseString(s, i)
             c == SkipWs(s, k.next)
         IN IF ~k.ok \/ c > Len(s) \/ s[c] # ":" THEN ParseFail
            ELSE LET r == ParseValue(s, SkipWs(s, c + 1))
                     j == SkipWs(s, r.next)
                 IN IF ~r.ok \/ j > Len(s) THEN ParseFail
                    ELSE IF s[j] = "}"
                         THEN ParseOk(JObj(DictPut(acc, k.val[2], r.val)), j + 1)
                    ELSE IF s[j] = ","
                         THEN ParseMembers(s, SkipWs(s, j + 1), DictPut(acc, k.val[2], r.val))
                    ELSE ParseFail

\* json.loads(s): [ok, val]; ok is FALSE where it raises JSONDecodeError.
JsonLoads(s) ==
    LET r == ParseValue(s, SkipWs(s, 1))
    IN IF r.ok /\ SkipWs(s, r.next) = Len(s) + 1
       THEN [ok |-> TRUE, val |-> r.val]
       ELSE [ok |-> FALSE, val |-> JNull]

(***************************************************************************)
(* Characters                                                              *)
(***************************************************************************)
\* One backtick, and the code points of the two Devanagari labels of the patterns.
BT == "<backtick>"
NaamLabel == <<"U+0928", "U+093E", "U+092E">>
JanmLabel == <<"U+091C", "U+0928", "U+094D", "U+092E">>

UpperSeq ==
    <<"A", "B", "C", "D", "E", "F", "G", "H", "I", "J", "K", "L", "M",
      "N", "O", "P", "Q", "R", "S", "T", "U", "V", "W", "X", "Y", "Z">>
LowerSeq ==
    <<"a", "b", "c", "d", "e", "f", "g", "h", "i", "j", "k", "l", "m",
      "n", "o", "p", "q", "r", "s", "t", "u", "v", "w", "x", "y", "z">>
Letters == {UpperSeq[i] : i \in 1..Len(UpperSeq)} \cup {LowerSeq[i] : i \in 1..Len(LowerSeq)}
Digits == {"0", "1", "2", "3", "4", "5", "6", "7", "8", "9"}

\* ch.lower()
ToLower(ch) ==
    IF \E i \in 1..Len(UpperSeq) : UpperSeq[i] = ch
    THEN LowerSeq[CHOOSE i \in 1..Len(UpperSeq) : UpperSeq[i] = ch]
    ELSE ch

\* The characters of a lexeme: the multi-character lexemes are listed, every other
\* lexeme is one character.
Spelling(tok) ==
    CASE tok = FENCE -> <<BT, BT, BT>>
      [] tok = TAG -> <<"j", "s", "o", "n">>
      [] tok = "null" -> <<"n", "u", "l", "l">>
      [] tok = "true" -> <<"t", "r", "u", "e">>
      [] tok = "false" -> <<"f", "a", "l", "s", "e">>
      [] tok = "80" -> <<"8", "0">>
      [] tok = "90" -> <<"9", "0">>
      [] tok = "150" -> <<"1", "5", "0">>
      [] tok = "-5" -> <<"-", "5">>
      [] tok = "ok" -> <<"o", "k">>
      [] tok = "yes" -> <<"y", "e", "s">>
      [] tok = "high" -> <<"h", "i", "g", "h">>
      [] tok = "name" -> <<"n", "a", "m", "e">>
      [] tok = "Name" -> <<"N", "a", "m", "e">>
      [] tok = "naam" -> NaamLabel
      [] tok = "janm" -> JanmLabel
      [] tok = "dob" -> <<"d", "o", "b">>
      [] tok = "DOB" -> <<"D", "O", "B">>
      [] tok = "mobile" -> <<"m", "o", "b", "i", "l", "e">>
      [] tok = "Mobile" -> <<"M", "o", "b", "i", "l", "e">>
      [] tok = "Aadhaar" -> <<"A", "a", "d", "h", "a", "a", "r">>
      [] tok = "aadhaar" -> <<"a", "a", "d", "h", "a", "a", "r">>
      [] tok = "aadhaar_number" ->
           <<"a", "a", "d", "h", "a", "a", "r", "_", "n", "u", "m", "b", "e", "r">>
      [] tok = "date_of_birth" ->
           <<"d", "a", "t", "e", "_", "o", "f", "_", "b", "i", "r", "t", "h">>
      [] tok = "pan" -> <<"p", "a", "n">>
      [] tok = "PAN" -> <<"P", "A", "N">>
      [] tok = "passport" -> <<"p", "a", "s", "s", "p", "o", "r", "t">>
      [] tok = "voter_id" -> <<"v", "o", "t", "e", "r", "_", "i", "d">>
      [] tok = "driving_license" ->
           <<"d", "r", "i", "v", "i", "n", "g", "_", "l", "i", "c", "e", "n", "s", "e">>
      [] tok = "ration_card" -> <<"r", "a", "t", "i", "o", "n", "_", "c", "a", "r", "d">>
      [] tok = "RAJESH" -> <<"R", "A", "J", "E", "S", "H">>
      [] tok = "SINGH" -> <<"S", "I", "N", "G", "H">>
      [] tok = "ABCDE" -> <<"A", "B", "C", "D", "E">>
      [] tok = "1234" -> <<"1", "2", "3", "4">>
      [] tok = "5678" -> <<"5", "6", "7", "8">>
      [] tok = "9012" -> <<"9", "0", "1", "2">>
      [] tok = "15" -> <<"1", "5">>
      [] tok = "08" -> <<"0", "8">>
      [] tok = "1985" -> <<"1", "9", "8", "5">>
      [] tok = "9876543210" -> <<"9", "8", "7", "6", "5", "4", "3", "2", "1", "0">>
      [] tok = "Sorry" -> <<"S", "o", "r", "r", "y">>
      [] tok = "Result" -> <<"R", "e", "s", "u", "l", "t">>
      [] tok = "Not" -> <<"N", "o", "t">>
      [] tok = "Found" -> <<"F", "o", "u", "n", "d">>
      [] tok = "html" -> <<"h", "t", "m", "l">>
      [] OTHER -> <<tok>>

\* The text as a sequence of characters.
RECURSIVE Chars(_)
Chars(s) == IF s = <<>> THEN <<>> ELSE Spelling(Head(s)) \o Chars(Tail(s))

LexLen(tok) == Len(Spelling(tok))

RECURSIVE TextLen(_)
TextLen(s) == IF s = <<>> THEN 0 ELSE LexLen(Head(s)) + TextLen(Tail(s))

\* len(str(n)) of an integer.
RECURSIVE NumStrLen(_)
NumStrLen(n) ==
    IF n < 0 THEN 1 + NumStrLen(0 - n)
    ELSE IF n < 10 THEN 1
    ELSE 1 + NumStrLen(n \div 10)

RECURSIVE SumSeq(_)
SumSeq(q) == IF q = <<>> THEN 0 ELSE Head(q) + SumSeq(Tail(q))

RECURSIVE SumOver(_, _)
SumOver(S, f) ==
    IF S = {} THEN 0
    ELSE LET x == CHOOSE y \in S : TRUE IN f[x] + SumOver(S \ {x}, f)

\* len(repr(x))
RECURSIVE ReprLen(_)
ReprLen(x) ==
    CASE x[1] = "null" -> 4
      [] x[1] = "bool" -> IF x[2] THEN 4 ELSE 5
      [] x[1] = "num" -> NumStrLen(x[2])
      [] x[1] = "str" -> TextLen(x[2]) + 2
      [] x[1] = "list" ->
           IF x[2] = <<>> THEN 2
           ELSE 2 + SumSeq([i \in 1..Len(x[2]) |-> ReprLen(x[2][i])]) + 2 * (Len(x[2]) - 1)
      [] x[1] = "obj" ->
           IF DOMAIN x[2] = {} THEN 2
           ELSE 2 + SumOver(DOMAIN x[2], [k \in DOMAIN x[2] |-> TextLen(k) + 4 + ReprLen(x[2][k])])
                  + 2 * (Cardinality(DOMAIN x[2]) - 1)
      [] OTHER -> 0

\* len(str(x))
PyStrLen(x) == IF x[1] = "str" THEN TextLen(x[2]) ELSE ReprLen(x)

\* str(x).strip() is not empty: only a string can consist of white space alone.
StrippedNonEmpty(x) ==
    IF x[1] = "str" THEN \E i \in 1..Len(x[2]) : x[2][i] \notin Ws ELSE TRUE

(***************************************************************************)
(* GeminiDocumentVerifier._calculate_confidence                            *)
(***************************************************************************)
K(word) == <<word>>

FieldWeight == 15
CriticalWeight == 10
NameMinLen == 3
NameBonus == 10
IdBonus == 15
ScoreCap == 95

critical_fields ==
    {K("name"), K("aadhaar_number"), K("pan_number"), K("passport_number"), K("date_of_birth")}
id_fields == {K("aadhaar_number"), K("pan_number")}

Min(a, b) == IF a <= b THEN a ELSE b

\* extracted_data.get(field) is truthy
HasTruthy(d, field) == field \in DOMAIN d /\ Truthy(d[field])

\* meaningful_fields: the values v with  v and str(v).strip()
MeaningfulFields(d) == {k \in DOMAIN d : Truthy(d[k]) /\ StrippedNonEmpty(d[k])}

FieldScoreWeak(d) == Cardinality(MeaningfulFields(d)) * 5
FieldScore(d) == Cardinality(MeaningfulFields(d)) * FieldWeight

CriticalScore(d) == Cardinality({f \in critical_fields : HasTruthy(d, f)}) * CriticalWeight

QualityScore(d) ==
    (IF HasTruthy(d, K("name")) /\ PyStrLen(d[K("name")]) > NameMinLen THEN NameBonus ELSE 0)
    + (IF \E f \in id_fields : HasTruthy(d, f) THEN IdBonus ELSE 0)

TotalScoreUncapped(field_score, critical_score, quality_score) ==
    field_score + critical_score + quality_score
TotalScore(field_score, critical_score, quality_score) ==
    Min(field_score + critical_score + quality_score, ScoreCap)

\* [raised, val]: a falsy argument scores 0 whatever its type; a truthy one that is
\* not a dict has no .values() and raises AttributeError.
CalculateConfidence(x) ==
    IF ~Truthy(x) THEN [raised |-> FALSE, val |-> 0]
    ELSE IF x[1] # "obj" THEN [raised |-> TRUE, val |-> 0]
    ELSE [raised |-> FALSE,
          val |-> TotalScore(FieldScore(x[2]), CriticalScore(x[2]), QualityScore(x[2]))]

(***************************************************************************)
(* GeminiDocumentVerifier._parse_unstructured_text                         *)
(*                                                                         *)
(* re.search(pattern, text, re.IGNORECASE) for the five patterns, on the   *)
(* characters of the text: the leftmost position at which the pattern      *)
(* matches, each repetition greedy and giving characters back when what    *)
(* follows it fails.                                                       *)
(***************************************************************************)
ColonWs == Ws \cup {":"}
LetterWs == Letters \cup Ws
DateSep == {"/", "-"}

\* s.strip()
RECURSIVE Strip(_)
Strip(c) ==
    IF c = <<>> THEN c
    ELSE IF Head(c) \in Ws THEN Strip(Tail(c))
    ELSE IF c[Len(c)] \in Ws THEN Strip(SubSeq(c, 1, Len(c) - 1))
    ELSE c

\* The length of the longest run of characters of class cls that starts at c[i].
RECURSIVE RunLen(_, _, _)
RunLen(c, i, cls) == IF i <= Len(c) /\ c[i] \in cls THEN 1 + RunLen(c, i + 1, cls) ELSE 0

\* Whether the literal lit stands at c[i], letter case ignored.
LiteralAt(c, i, lit) ==
    /\ i + Len(lit) - 1 <= Len(c)
    /\ \A j \in 1..Len(lit) : ToLower(c[i + j - 1]) = ToLower(lit[j])

\* (?:a|b|...): the length of the first alternative of labels that stands at c[i],
\* 0 when none does.
RECURSIVE LabelAt(_, _, _)
LabelAt(c, i, labels) ==
    IF labels = <<>> THEN 0
    ELSE IF LiteralAt(c, i, Head(labels)) THEN Len(Head(labels))
    ELSE LabelAt(c, i, Tail(labels))

NoMatch == [ok |-> FALSE, group |-> <<>>]
Match(c, from, to) == [ok |-> TRUE, group |-> SubSeq(c, from, to)]

\* cls{n} at c[i]
ClassAt(c, i, n, cls) == i + n - 1 <= Len(c) /\ \A j \in i..(i + n - 1) : c[j] \in cls

\* The match at the leftmost position of c where matchAt finds one.
FirstMatch(c, matchAt(_, _)) ==
    LET P == {p \in 1..Len(c) : matchAt(c, p).ok}
    IN IF P = {} THEN NoMatch ELSE matchAt(c, CHOOSE p \in P : \A q \in P : p <= q)

\* (?:name|<naam>)[:\s]+([a-zA-Z\s]+) at c[p]: the separator run gives characters
\* back until a letter or a white space follows it.
NameAt(c, p) ==
    LET l == LabelAt(c, p, <<Spelling("name"), NaamLabel>>)
        q == p + l
        m == RunLen(c, q, ColonWs)
        N == {n \in 1..m : q + n <= Len(c) /\ c[q + n] \in LetterWs}
    IN IF l = 0 \/ N = {} THEN NoMatch
       ELSE LET n == CHOOSE x \in N : \A y \in N : y <= x
            IN Match(c, q + n, q + n + RunLen(c, q + n, LetterWs) - 1)

\* \s? at c[i]: the position after it.
OptWs(c, i) == IF i <= Len(c) /\ c[i] \in Ws THEN i + 1 ELSE i

\* (\d{4}\s?\d{4}\s?\d{4}) at c[p]
AadhaarAt(c, p) ==
    LET i2 == OptWs(c, p + 4)
        i3 == OptWs(c, i2 + 4)
    IN IF ClassAt(c, p, 4, Digits) /\ ClassAt(c, i2, 4, Digits) /\ ClassAt(c, i3, 4, Digits)
       THEN Match(c, p, i3 + 3)
       ELSE NoMatch

\* ([A-Z]{5}\d{4}[A-Z]) at c[p], letter case ignored
PanAt(c, p) ==
    IF ClassAt(c, p, 5, Letters) /\ ClassAt(c, p + 5, 4, Digits) /\ ClassAt(c, p + 9, 1, Letters)
    THEN Match(c, p, p + 9)
    ELSE NoMatch

\* \d{lo,hi} at c[i]: the number of digits it takes, 0 when fewer than lo stand there.
DigitRun(c, i, lo, hi) ==
    LET r == RunLen(c, i, Digits)
    IN IF r < lo THEN 0 ELSE IF r > hi THEN hi ELSE r

\* (?:dob|birth|<janm>)[:\s]*(\d{1,2}[/\-]\d{1,2}[/\-]\d{2,4}) at c[p]
DobAt(c, p) ==
    LET l == LabelAt(c, p, <<Spelling("dob"), <<"b", "i", "r", "t", "h">>, JanmLabel>>)
        g == p + l + RunLen(c, p + l, ColonWs)
        d1 == DigitRun(c, g, 1, 2)
        s1 == g + d1
        d2 == DigitRun(c, s1 + 1, 1, 2)
        s2 == s1 + 1 + d2
        d3 == DigitRun(c, s2 + 1, 2, 4)
    IN IF /\ l > 0 /\ d1 > 0 /\ ClassAt(c, s1, 1, DateSep)
          /\ d2 > 0 /\ ClassAt(c, s2, 1, DateSep) /\ d3 > 0
       THEN Match(c, g, s2 + d3)
       ELSE NoMatch

\* (?:mobile|phone)[:\s]*(\d{10}) at c[p]
MobileAt(c, p) ==
    LET l == LabelAt(c, p, <<Spelling("mobile"), <<"p", "h", "o", "n", "e">>>>)
        g == p + l + RunLen(c, p + l, ColonWs)
    IN IF l > 0 /\ ClassAt(c, g, 10, Digits) THEN Match(c, g, g + 9) ELSE NoMatch

\* result[key] = match.group(1).strip() when the pattern matched.
PutMatch(d, key, m) == IF m.ok THEN DictPut(d, K(key), JStr(Strip(m.group))) ELSE d

ParseUnstructuredText(text, document_type) ==
    LET c == Chars(text)
        r1 == PutMatch(EmptyDict, "name", FirstMatch(c, NameAt))
        r2 == PutMatch(r1, "aadhaar", FirstMatch(c, AadhaarAt))
        r3 == PutMatch(r2, "pan", FirstMatch(c, PanAt))
        r4 == PutMatch(r3, "date_of_birth", FirstMatch(c, DobAt))
    IN JObj(PutMatch(r4, "mobile", FirstMatch(c, MobileAt)))

(***************************************************************************)
(* The reasoning service, exceptions and results                           *)
(***************************************************************************)
\* A local variable: x is evaluated once and F applied to its value.
Bind(x, F(_)) == CHOOSE y \in {F(v) : v \in {x}} : TRUE

\* What model.generate_content(...).text does: it raises, or it is a text.
Raises(error) == [raises |-> TRUE, error |-> error, text |-> <<>>]
Replies(text) == [raises |-> FALSE, error |-> "", text |-> text]

\* The outcome of a try body: the value it returns or the exception it raises.
Returned(val) == [raised |-> FALSE, error |-> "", val |-> val]
Raised(error) == [raised |-> TRUE, error |-> error, val |-> JNull]

\* f"<prefix>{e}"
Message(prefix, error) == JStr(<<prefix, error>>)

(***************************************************************************)
(* GeminiDocumentVerifier.extract_document_data                            *)
(***************************************************************************)
DocumentData(extracted_data, raw_text, document_type, confidence, file_path) ==
    [extracted_data |-> extracted_data, raw_text |-> raw_text,
     document_type |-> document_type, confidence |-> confidence, file_path |-> file_path]

PromptRegistry == {"aadhaar", "pan", "passport", "voter_id", "driving_license"}

\* document_type.lower()
LowerChars(c) == [i \in 1..Len(c) |-> ToLower(c[i])]

\* prompts.get(document_type.lower(), <the generic prompt>)
GetExtractionPrompt(document_type) ==
    LET low == LowerChars(Spelling(document_type))
        known == {k \in PromptRegistry : Spelling(k) = low}
    IN [document_type |-> document_type,
        template |-> IF known = {} THEN "generic" ELSE CHOOSE k \in known : TRUE]

\* The record of an except branch that marks the confidence as unknown.
ExtractFailureUnknown(image_path, document_type) ==
    [extracted_data |-> JObj(EmptyDict), raw_text |-> JStr(<<>>),
     document_type |-> document_type, confidence |-> JNum(0 - 1), file_path |-> image_path]

\* The record of the except branch.
ExtractFailure(image_path, document_type) ==
    DocumentData(JObj(EmptyDict), JStr(<<>>), document_type, JNum(0), image_path)

\* The try body: open the image, ask the service, parse its text, score the fields.
TryExtract(image_path, document_type, readable, r) ==
    IF ~readable THEN Raised("FileNotFoundError")
    ELSE IF r.raises THEN Raised(r.error)
    ELSE Bind(JsonLoads(r.text), LAMBDA parsed :
         Bind(IF parsed.ok THEN parsed.val
              ELSE ParseUnstructuredText(r.text, document_type), LAMBDA extracted_data :
         Bind(CalculateConfidence(extracted_data), LAMBDA confidence :
              IF confidence.raised THEN Raised("AttributeError")
              ELSE Returned(DocumentData(extracted_data, JStr(r.text), document_type,
                                         JNum(confidence.val), image_path)))))

\* What the call gives its caller when open() stands before the try: an unreadable
\* image raises.
ExtractOpenOutsideTry(image_path, document_type, readable, r) ==
    Bind(TryExtract(image_path, document_type, readable, r), LAMBDA t :
         IF ~readable THEN t
         ELSE IF t.raised THEN Returned(ExtractFailure(image_path, document_type)) ELSE t)

\* What the call gives its caller: except Exception turns every failure into the
\* failure record.
ExtractDocumentData(image_path, document_type, readable, r) ==
    Bind(TryExtract(image_path, document_type, readable, r), LAMBDA t :
         IF t.raised THEN Returned(ExtractFailure(image_path, document_type)) ELSE t)

(***************************************************************************)
(* GeminiDocumentVerifier.verify_documents_belong_to_same_person           *)
(***************************************************************************)
RawTextCap == 500

\* Path(file_path).name
FileName(file_path) == file_path[Len(file_path)]

\* doc.raw_text[:cap] and whether the text is longer than that
RawPrefix(raw_text, cap) ==
    LET c == Chars(raw_text[2])
    IN [text |-> SubSeq(c, 1, Min(cap, Len(c))), longer |-> Len(c) > cap]

\* The request: the number of documents and one block for each, in order.
VerifyPrompt(docs) ==
    [n |-> Len(docs),
     blocks |-> [i \in 1..Len(docs) |->
                    [index |-> i,
                     document_type |-> docs[i].document_type,
                     file |-> FileName(docs[i].file_path),
                     confidence |-> docs[i].confidence,
                     extracted_data |-> docs[i].extracted_data,
                     raw_text |-> RawPrefix(docs[i].raw_text, RawTextCap).text,
                     ellipsis |-> RawPrefix(docs[i].raw_text, RawTextCap).longer]]]

FenceJson == <<FENCE, TAG>>

\* Lines 195-198: the text between the first tagged fence, or else the first bare
\* fence, and the fence after it.
VerifyCleanResponse(text) ==
    IF Contains(text, FenceJson) THEN Split(Split(text, FenceJson)[2], <<FENCE>>)[1]
    ELSE IF Contains(text, <<FENCE>>) THEN Split(Split(text, <<FENCE>>)[2], <<FENCE>>)[1]
    ELSE text

VerificationResult(same, confidence, analysis, risk_factors, recommendations, scores) ==
    [belongs_to_same_person |-> same, confidence |-> confidence, analysis |-> analysis,
     risk_factors |-> risk_factors, recommendations |-> recommendations,
     individual_document_scores |-> scores]

\* [0] * n
Zeros(n) == JList([i \in 1..n |-> JNum(0)])

\* The result of the except branch, with no score at all.
VerifyDegradedNoScores(docs, error) ==
    VerificationResult(JBool(FALSE), JNum(0),
                       Message("Analysis failed due to error: ", error),
                       JList(<<JStr(<<"Technical analysis failure">>)>>),
                       JList(<<JStr(<<"Retry analysis or manual review required">>)>>),
                       JList(<<>>))

\* The result of the except branch.
VerifyDegraded(docs, error) ==
    VerificationResult(JBool(FALSE), JNum(0),
                       Message("Analysis failed due to error: ", error),
                       JList(<<JStr(<<"Technical analysis failure">>)>>),
                       JList(<<JStr(<<"Retry analysis or manual review required">>)>>),
                       Zeros(Len(docs)))

\* The try body: ask the service, clean its text, parse it, read the six fields.
TryVerify(r) ==
    IF r.raises THEN Raised(r.error)
    ELSE Bind(VerifyCleanResponse(r.text), LAMBDA result_text :
         Bind(JsonLoads(result_text), LAMBDA parsed :
         Bind(parsed.val, LAMBDA analysis_result :
              IF ~parsed.ok THEN Raised("JSONDecodeError")
              ELSE IF analysis_result[1] # "obj" THEN Raised("AttributeError")
              ELSE Returned(VerificationResult(
                       DictGet(analysis_result, K("belongs_to_same_person"), JBool(FALSE)),
                       DictGet(analysis_result, K("confidence"), JNum(0)),
                       DictGet(analysis_result, K("analysis"), JStr(<<>>)),
                       DictGet(analysis_result, K("risk_factors"), JList(<<>>)),
                       DictGet(analysis_result, K("recommendations"), JList(<<>>)),
                       DictGet(analysis_result, K("individual_document_scores"),
                               JList(<<>>)))))))

\* Where the call stands once the try body has ended, were the except branch to ask
\* the service again.
VerifyResumeRetry(t) == IF t.raised THEN "verify" ELSE "verified"

\* Where the call stands once the try body has ended: the try returns its result,
\* the except branch returns the degraded one, and neither asks the service again.
VerifyResume(t) == "verified"

\* What the call gives its caller: except Exception turns every failure into the
\* degraded result.
VerifyDocuments(docs, r) ==
    Bind(TryVerify(r), LAMBDA t :
         IF t.raised THEN VerifyDegraded(docs, t.error) ELSE t.val)

(***************************************************************************)
(* Comparison with a reference: the verifier's method and the two helpers  *)
(***************************************************************************)
CompareTextCap == 300
HttpOk == 200

\* What requests.get(url) does: it raises, or it answers with a status and a body.
FetchRaises(error) == [raises |-> TRUE, error |-> error, status_code |-> 0, text |-> <<>>]
FetchAnswers(status_code, text) ==
    [raises |-> FALSE, error |-> "", status_code |-> status_code, text |-> text]

\* Lines 227-232 of the verifier: get, check the status, response.json().
TryFetch(f) ==
    IF f.raises THEN Raised(f.error)
    ELSE IF f.status_code # HttpOk THEN Raised("Failed to fetch reference data")
    ELSE Bind(JsonLoads(f.text), LAMBDA parsed :
              IF parsed.ok THEN Returned(parsed.val) ELSE Raised("JSONDecodeError"))

\* The request of the verifier's comparison.
StoredComparePrompt(new_document, stored_data) ==
    [document_type |-> new_document.document_type,
     extracted_data |-> new_document.extracted_data,
     raw_text |-> RawPrefix(new_document.raw_text, CompareTextCap).text,
     stored_data |-> stored_data]

\* The request of the two helpers.
ComparePrompt(new_data, reference_data) ==
    [new_data |-> new_data, reference_data |-> reference_data]

StoredCompareDegraded(error) ==
    JObj(DictPut(DictPut(DictPut(DictPut(DictPut(DictPut(EmptyDict,
        K("matches"), JBool(FALSE)),
        K("confidence"), JNum(0)),
        K("differences"), JList(<<Message("Comparison failed: ", error)>>)),
        K("analysis"), JStr(<<"Technical error during comparison">>)),
        K("core_identity_match"), JBool(FALSE)),
        K("recommendation"), JStr(<<"MANUAL_REVIEW">>)))

AiCompareDegraded(error) ==
    JObj(DictPut(DictPut(DictPut(DictPut(EmptyDict,
        K("matches"), JBool(FALSE)),
        K("confidence"), JNum(0)),
        K("analysis"), Message("AI comparison failed: ", error)),
        K("recommendation"), JStr(<<"MANUAL_REVIEW">>)))

ReferenceCompareDegraded(error) ==
    JObj(DictPut(DictPut(DictPut(DictPut(EmptyDict,
        K("matches"), JBool(FALSE)),
        K("confidence"), JNum(0)),
        K("key_differences"), JList(<<Message("Comparison failed: ", error)>>)),
        K("recommendation"), JStr(<<"REVIEW">>)))

\* The helpers' cleaning: only a tagged fence is removed.
CompareCleanResponse(text) ==
    IF Contains(text, FenceJson) THEN Split(Split(text, FenceJson)[2], <<FENCE>>)[1]
    ELSE text

\* json.loads(result.text): the verifier's comparison parses the text as it came.
TryStoredCompare(r) ==
    IF r.raises THEN Raised(r.error)
    ELSE Bind(JsonLoads(r.text), LAMBDA parsed :
              IF parsed.ok THEN Returned(parsed.val) ELSE Raised("JSONDecodeError"))

\* The helpers' try body: ask, clean, parse.
TryCompare(r) ==
    IF r.raises THEN Raised(r.error)
    ELSE Bind(JsonLoads(CompareCleanResponse(r.text)), LAMBDA parsed :
              IF parsed.ok THEN Returned(parsed.val) ELSE Raised("JSONDecodeError"))

\* compare_with_stored_reference once the reference has been fetched
CompareWithStoredReference(r) ==
    Bind(TryStoredCompare(r), LAMBDA t : IF t.raised THEN StoredCompareDegraded(t.error) ELSE t.val)

\* compare_data_ai_powered
CompareDataAiPowered(r) ==
    Bind(TryCompare(r), LAMBDA t : IF t.raised THEN AiCompareDegraded(t.error) ELSE t.val)

\* compare_with_reference
CompareWithReference(r) ==
    Bind(TryCompare(r), LAMBDA t : IF t.raised THEN ReferenceCompareDegraded(t.error) ELSE t.val)

(***************************************************************************)
(* State                                                                   *)
(***************************************************************************)
VARIABLES
    pc,          \* where the caller is: "idle", inside an operation, or holding its result
    fields,      \* the FieldMap handed to _calculate_confidence
    filled,      \* the last critical field filled in and the score before that
    documents,   \* the records handed to verify_documents_belong_to_same_person
    args,        \* the other arguments of the operation in progress
    fetch,       \* what the reference store answered
    request,     \* the request built for the reasoning service
    reply,       \* what the reasoning service answered
    calls,       \* how often the current operation invoked the reasoning service
    result       \* what the operation returned

vars == <<pc, fields, filled, documents, args, fetch, request, reply, calls, result>>

None == JNull
NoFill == [key |-> <<>>, before |-> 0]
NoReply == [raises |-> FALSE, error |-> "", text |-> <<>>]

(***************************************************************************)
(* The scorer on its own: every FieldMap over the keys below               *)
(***************************************************************************)
Absent == JV("absent", 0)
ScoredKeys == critical_fields \cup {K("address")}

NameValues ==
    {Absent, JNull, JStr(<<>>), JStr(<<SP>>), JStr(<<SP, SP, SP, SP>>),
     JStr(<<"A", "B">>), JStr(<<"R", "A", "J", SP, "E">>)}
OtherValues == {Absent, JStr(<<>>), JStr(<<SP>>), JStr(<<"1", "2">>)}
NonBlankValues == {JStr(<<"A", "B">>), JStr(<<"R", "A", "J", SP, "E">>)}

\* The dict that holds the entries of f that are present.
FieldMapOf(f) == [fk \in {fx \in DOMAIN f : f[fx] # Absent} |-> f[fk]]

FieldMaps ==
    {JObj(FieldMapOf(f)) :
        f \in {g \in [ScoredKeys -> NameValues \cup OtherValues] :
                  /\ g[K("name")] \in NameValues
                  /\ \A k \in ScoredKeys \ {K("name")} : g[k] \in OtherValues}}

\* A value the data model calls not extracted: absent, empty or white space only.
IsBlank(d, k) == IF k \in DOMAIN d THEN ~(Truthy(d[k]) /\ StrippedNonEmpty(d[k])) ELSE TRUE

InitScore ==
    /\ pc = "score_call"
    /\ fields \in FieldMaps
    /\ filled = NoFill
    /\ documents = <<>>
    /\ args = None
    /\ fetch = None
    /\ request = None
    /\ reply = NoReply
    /\ calls = 0
    /\ result = None

\* confidence = self._calculate_confidence(extracted_data)
ScoreFields ==
    /\ pc = "score_call"
    /\ pc' = "scored"
    /\ result' = JNum(CalculateConfidence(fields).val)
    /\ UNCHANGED <<fields, filled, documents, args, fetch, request, reply, calls>>

\* The caller fills one blank critical field in and scores the map again.
FillCriticalField ==
    /\ pc = "scored"
    /\ \E k \in critical_fields, v \in NonBlankValues :
          /\ IsBlank(fields[2], k)
          /\ fields' = JObj(DictPut(fields[2], k, v))
          /\ filled' = [key |-> k, before |-> result[2]]
          /\ result' = JNum(CalculateConfidence(fields').val)
    /\ UNCHANGED <<pc, documents, args, fetch, request, reply, calls>>

NextScore == ScoreFields \/ FillCriticalField

SpecScore == InitScore /\ [][NextScore]_vars

(***************************************************************************)
(* Properties of the scorer                                                *)
(***************************************************************************)
Scored == pc = "scored"

NonBlankCount(d) == Cardinality({k \in DOMAIN d : ~IsBlank(d, k)})

\* C7: a FieldMap with no non-blank value (absent, empty or white space only)
\* scores exactly 0.
C7_BlankMapScoresZero == (Scored /\ NonBlankCount(fields[2]) = 0) => result = JNum(0)

\* C8: the score of every FieldMap lies in 0..95.
C8_ScoreWithinCap == Scored => (result[2] >= 0 /\ result[2] <= ScoreCap)

C8_Witness == Scored /\ result = JNum(ScoreCap) /\ NonBlankCount(fields[2]) = Cardinality(ScoredKeys)

\* C9: filling a blank or absent critical field with a non-blank value, the other
\* entries unchanged, never lowers the score.
C9_MonotoneInCriticalFields == (Scored /\ filled # NoFill) => result[2] >= filled.before

C9_Witness ==
    /\ Scored
    /\ filled.key = K("name")
    /\ filled.before = CriticalWeight + NameBonus
    /\ result = JNum(FieldWeight + CriticalWeight)

\* C10: score = min(15*M + 10*C + Q, 95) with M the non-blank values, C the critical
\* names present with a non-blank value, Q = 10 for a name longer than 3 characters
\* plus 15 for a national-ID number that is present.
ClaimedCritical(d) == Cardinality({f \in critical_fields : ~IsBlank(d, f)})
ClaimedScore(d) ==
    Min(FieldWeight * NonBlankCount(d) + CriticalWeight * ClaimedCritical(d) + QualityScore(d), ScoreCap)

C10_ScoreFormula == Scored => result = JNum(ClaimedScore(fields[2]))

(***************************************************************************)
(* The texts the reasoning service and the reference store may answer      *)
(***************************************************************************)
MaxDocs == 2

\* "key": value
Member(key, value) == <<DQ, key, DQ, ":", SP>> \o value

\* The members that are present, joined with ", ".
RECURSIVE JoinMembers(_)
JoinMembers(ms) ==
    IF ms = <<>> THEN <<>>
    ELSE IF Head(ms) = <<>> THEN JoinMembers(Tail(ms))
    ELSE LET rest == JoinMembers(Tail(ms))
         IN IF rest = <<>> THEN Head(ms) ELSE Head(ms) \o <<",", SP>> \o rest

ObjectText(ms) == <<"{">> \o JoinMembers(ms) \o <<"}">>

\* A member that may be left out: <<>> stands for the absent member.
Optional(key, values) == {<<>>} \cup {Member(key, v) : v \in values}

Quoted(text) == <<DQ>> \o text \o <<DQ>>

\* A body wrapped the way a chat model wraps structured data.
Fenced(J) == <<FENCE, TAG, NL>> \o J \o <<NL, FENCE>>
BareFenced(J) == <<FENCE, NL>> \o J \o <<NL, FENCE>>
Prefaced(J) == <<"Result", ":", NL>> \o Fenced(J) \o <<NL>>
Wrapped(bodies) ==
    bodies \cup {Fenced(J) : J \in bodies} \cup {BareFenced(J) : J \in bodies}
           \cup {Prefaced(J) : J \in bodies}

\* Texts that are no structured object at all.
BrokenTexts ==
    {<<>>, <<"null">>, <<"[", "90", "]">>, <<"90">>, Quoted(<<"ok">>),
     <<"Sorry", SP, "{">>, Fenced(<<"[", "90", "]">>), <<FENCE, TAG>>}

ServiceErrors == {"ServiceUnavailable"}

\* The bodies the verification prompt asks for, with members missing or mistyped.
VerifyBodies ==
    {ObjectText(<<s, c, a, d>>) :
        s \in Optional("belongs_to_same_person",
                       {<<"true">>, <<"false">>, Quoted(<<"yes">>)}),
        c \in Optional("confidence", {<<"90">>, <<"150">>, <<"-5">>, Quoted(<<"high">>)}),
        a \in Optional("analysis", {Quoted(<<"ok">>), Quoted(<<FENCE, "{", "}", FENCE>>)}),
        d \in Optional("individual_document_scores",
                       {<<"[", "]">>, <<"[", "90", "]">>,
                        <<"[", "90", ",", SP, "80", "]">>, <<"null">>})}

VerifyReplies ==
    {Raises(e) : e \in ServiceErrors}
    \cup {Replies(t) : t \in Wrapped(VerifyBodies) \cup BrokenTexts}

\* The bodies the comparison prompts ask for.
CompareBodies ==
    {ObjectText(<<m, c, a, r>>) :
        m \in Optional("matches", {<<"true">>, <<"false">>}),
        c \in Optional("confidence", {<<"90">>, <<"150">>}),
        a \in Optional("analysis", {Quoted(<<"ok">>)}),
        r \in Optional("recommendation",
                       {Quoted(<<"ACCEPT">>), Quoted(<<"REJECT">>),
                        Quoted(<<"MANUAL_REVIEW">>), Quoted(<<"REVIEW">>)})}

CompareReplies ==
    {Raises(e) : e \in ServiceErrors}
    \cup {Replies(t) : t \in Wrapped(CompareBodies) \cup BrokenTexts}

\* What the service reads off an image.
AadhaarJson ==
    ObjectText(<<Member("name", Quoted(<<"RAJESH", SP, "SINGH">>)),
                 Member("aadhaar_number", Quoted(<<"1234", SP, "5678", SP, "9012">>)),
                 Member("date_of_birth", Quoted(<<"15", "/", "08", "/", "1985">>))>>)
PanPlain ==
    <<"Name", ":", SP, "RAJESH", SP, "SINGH", NL, "PAN", SP, "ABCDE", "1234", "F", NL,
      "DOB", ":", SP, "15", "-", "08", "-", "1985">>
BlankJson == ObjectText(<<Member("name", Quoted(<<SP>>)), Member("pan", <<"null">>)>>)

ExtractReplies ==
    {Raises(e) : e \in ServiceErrors}
    \cup {Replies(t) : t \in {AadhaarJson, Fenced(AadhaarJson), PanPlain, BlankJson,
                              <<"{", "}">>, <<"[", "]">>, <<"0">>} \cup BrokenTexts}

ImagePaths == {<<"uploads", "aadhaar.jpg">>, <<"uploads", "missing.jpg">>}
DocumentTypes == {"aadhaar", "PAN", "ration_card"}

\* open(image_path, 'rb') succeeds
Readable(image_path) == FileName(image_path) # "missing.jpg"

\* Records extract_document_data has produced: from structured data, from free text,
\* and from an image it could not read.
SampleRecords ==
    {ExtractDocumentData(<<"uploads", "aadhaar.jpg">>, "aadhaar", TRUE, Replies(AadhaarJson)).val,
     ExtractDocumentData(<<"uploads", "pan.jpg">>, "PAN", TRUE, Replies(PanPlain)).val,
     ExtractFailure(<<"uploads", "missing.jpg">>, "ration_card")}

RECURSIVE SeqsUpTo(_, _)
SeqsUpTo(S, n) ==
    IF n = 0 THEN {<<>>}
    ELSE LET shorter == SeqsUpTo(S, n - 1)
         IN shorter \cup {Append(q, x) : q \in {p \in shorter : Len(p) = n - 1}, x \in S}

DocumentLists == SeqsUpTo(SampleRecords, MaxDocs)

StoredJson ==
    ObjectText(<<Member("name", Quoted(<<"RAJESH", SP, "SINGH">>)),
                 Member("aadhaar_number", Quoted(<<"1234", "5678", "9012">>))>>)

ReferenceUrls == {"https://ipfs.io/ipfs/reference"}

FetchOutcomes ==
    {FetchRaises("ConnectionError"), FetchAnswers(404, <<"Not", SP, "Found">>),
     FetchAnswers(200, StoredJson), FetchAnswers(200, <<"{", "}">>),
     FetchAnswers(200, <<"<", "html", ">">>)}

ReferenceData == {JsonLoads(StoredJson).val, JObj(EmptyDict)}

(***************************************************************************)
(* The operations, as their callers see them                               *)
(***************************************************************************)
Init ==
    /\ pc = "idle"
    /\ fields = None
    /\ filled = NoFill
    /\ documents = <<>>
    /\ args = None
    /\ fetch = None
    /\ request = None
    /\ reply = NoReply
    /\ calls = 0
    /\ result = None

\* extract_document_data is called: the prompt is chosen before the try.
ExtractCall ==
    /\ pc = "idle"
    /\ \E image_path \in ImagePaths, document_type \in DocumentTypes :
          /\ args' = [image_path |-> image_path, document_type |-> document_type]
          /\ request' = GetExtractionPrompt(document_type)
    /\ pc' = "extract"
    /\ UNCHANGED <<fields, filled, documents, fetch, reply, calls, result>>

\* The image is opened, the service asked once if that worked, and the record returned.
ExtractReturn ==
    /\ pc = "extract"
    /\ \E r \in ExtractReplies :
          LET readable == Readable(args.image_path)
          IN /\ reply' = IF readable THEN r ELSE NoReply
             /\ calls' = IF readable THEN 1 ELSE 0
             /\ result' = ExtractDocumentData(args.image_path, args.document_type,
                                              readable, r)
    /\ pc' = "extracted"
    /\ UNCHANGED <<fields, filled, documents, args, fetch, request>>

\* verify_documents_belong_to_same_person is called: the prompt is built before the try.
VerifyCall ==
    /\ pc = "idle"
    /\ \E docs \in DocumentLists :
          /\ documents' = docs
          /\ request' = VerifyPrompt(docs)
    /\ pc' = "verify"
    /\ UNCHANGED <<fields, filled, args, fetch, reply, calls, result>>

\* response = self.model.generate_content(prompt): the service is asked with the
\* one prompt and answers or raises.
VerifyInvoke ==
    /\ pc = "verify"
    /\ \E r \in VerifyReplies : reply' = r
    /\ calls' = calls + 1
    /\ pc' = "verify_replied"
    /\ UNCHANGED <<fields, filled, documents, args, fetch, request, result>>

\* The rest of the try, or the except branch, returns the verification result.
VerifyReturn ==
    /\ pc = "verify_replied"
    /\ result' = VerifyDocuments(documents, reply)
    /\ pc' = VerifyResume(TryVerify(reply))
    /\ UNCHANGED <<fields, filled, documents, args, fetch, request, reply, calls>>

\* compare_with_stored_reference is called with a record and the reference's address.
StoredCompareCall ==
    /\ pc = "idle"
    /\ \E new_document \in SampleRecords, stored_data_url \in ReferenceUrls :
          args' = [new_document |-> new_document, stored_data_url |-> stored_data_url]
    /\ pc' = "fetch"
    /\ UNCHANGED <<fields, filled, documents, fetch, request, reply, calls, result>>

\* Inside the try, the reference is fetched: a failure ends the call with the
\* degraded result, a success builds the prompt.
StoredCompareFetch ==
    /\ pc = "fetch"
    /\ \E f \in FetchOutcomes :
       \E t \in {TryFetch(f)} :
          /\ fetch' = f
          /\ pc' = IF t.raised THEN "compared_stored" ELSE "compare_stored"
          /\ request' = IF t.raised THEN None
                        ELSE StoredComparePrompt(args.new_document, t.val)
          /\ result' = IF t.raised THEN StoredCompareDegraded(t.error) ELSE None
    /\ UNCHANGED <<fields, filled, documents, args, reply, calls>>

\* The service is asked once and what it said is parsed and returned.
StoredCompareReturn ==
    /\ pc = "compare_stored"
    /\ \E r \in CompareReplies :
          /\ reply' = r
          /\ result' = CompareWithStoredReference(r)
    /\ calls' = 1
    /\ pc' = "compared_stored"
    /\ UNCHANGED <<fields, filled, documents, args, fetch, request>>

\* compare_data_ai_powered is called with two dicts.
AiCompareCall ==
    /\ pc = "idle"
    /\ \E new_document \in SampleRecords, ipfs_data \in ReferenceData :
          /\ args' = [ocr_data |-> new_document.extracted_data, ipfs_data |-> ipfs_data]
          /\ request' = ComparePrompt(new_document.extracted_data, ipfs_data)
    /\ pc' = "compare_ai"
    /\ UNCHANGED <<fields, filled, documents, fetch, reply, calls, result>>

AiCompareReturn ==
    /\ pc = "compare_ai"
    /\ \E r \in CompareReplies :
          /\ reply' = r
          /\ result' = CompareDataAiPowered(r)
    /\ calls' = 1
    /\ pc' = "compared_ai"
    /\ UNCHANGED <<fields, filled, documents, args, fetch, request>>

\* compare_with_reference is called with two dicts.
ReferenceCompareCall ==
    /\ pc = "idle"
    /\ \E new_document \in SampleRecords, reference_data \in ReferenceData :
          /\ args' = [new_doc_data |-> new_document.extracted_data,
                      reference_data |-> reference_data]
          /\ request' = ComparePrompt(new_document.extracted_data, reference_data)
    /\ pc' = "compare_reference"
    /\ UNCHANGED <<fields, filled, documents, fetch, reply, calls, result>>

ReferenceCompareReturn ==
    /\ pc = "compare_reference"
    /\ \E r \in CompareReplies :
          /\ reply' = r
          /\ result' = CompareWithReference(r)
    /\ calls' = 1
    /\ pc' = "compared_reference"
    /\ UNCHANGED <<fields, filled, documents, args, fetch, request>>

Finished ==
    {"extracted", "verified", "compared_stored", "compared_ai", "compared_reference"}

\* The caller takes the result and is free to call again.
Done ==
    /\ pc \in Finished
    /\ pc' = "idle"
    /\ fields' = None
    /\ filled' = NoFill
    /\ documents' = <<>>
    /\ args' = None
    /\ fetch' = None
    /\ request' = None
    /\ reply' = NoReply
    /\ calls' = 0
    /\ result' = None

Next ==
    \/ ExtractCall
    \/ ExtractReturn
    \/ VerifyCall
    \/ VerifyInvoke
    \/ VerifyReturn
    \/ StoredCompareCall
    \/ StoredCompareFetch
    \/ StoredCompareReturn
    \/ AiCompareCall
    \/ AiCompareReturn
    \/ ReferenceCompareCall
    \/ ReferenceCompareReturn
    \/ Done

Spec == Init /\ [][Next]_vars

(***************************************************************************)
(* Properties of the operations                                            *)
(***************************************************************************)
Extracted == pc = "extracted"
Verified == pc = "verified"
Compared == pc \in {"compared_stored", "compared_ai", "compared_reference"}

\* The text parses, and to an object.
ValidObject(text) == JsonLoads(text).ok /\ JsonLoads(text).val[1] = "obj"

\* The reply is a body inside a tagged fence, or inside a bare one, and nothing else.
IsFenced(text) ==
    /\ Len(text) >= 5
    /\ SubSeq(text, 1, 3) = <<FENCE, TAG, NL>>
    /\ SubSeq(text, Len(text) - 1, Len(text)) = <<NL, FENCE>>
IsBareFenced(text) ==
    /\ Len(text) >= 4
    /\ SubSeq(text, 1, 2) = <<FENCE, NL>>
    /\ SubSeq(text, Len(text) - 1, Len(text)) = <<NL, FENCE>>
IsWrapped(text) == IsFenced(text) \/ IsBareFenced(text)
Unwrapped(text) ==
    IF IsFenced(text) THEN SubSeq(text, 4, Len(text) - 2) ELSE SubSeq(text, 3, Len(text) - 2)

\* The failure of a verification: the call raised, the text the operation parsed is
\* no structured data, or it is structured data that is not an object.
VerifyFailure ==
    IF reply.raises THEN reply.error
    ELSE IF ~JsonLoads(VerifyCleanResponse(reply.text)).ok THEN "JSONDecodeError"
    ELSE IF JsonLoads(VerifyCleanResponse(reply.text)).val[1] # "obj" THEN "AttributeError"
    ELSE "none"

\* C1: whatever the records, when the reasoning call raises, or its text is not
\* valid structured data, or parses to something that is not an object, the
\* verification returns same_identity false, confidence 0, the two fixed lists, an
\* analysis message naming the failure, and one zero for each record.
C1_DegradedVerification ==
    (Verified /\ VerifyFailure # "none") =>
        /\ result.belongs_to_same_person = JBool(FALSE)
        /\ result.confidence = JNum(0)
        /\ result.risk_factors = JList(<<JStr(<<"Technical analysis failure">>)>>)
        /\ result.recommendations =
              JList(<<JStr(<<"Retry analysis or manual review required">>)>>)
        /\ result.analysis = JStr(<<"Analysis failed due to error: ", VerifyFailure>>)
        /\ result.individual_document_scores[1] = "list"
        /\ Len(result.individual_document_scores[2]) = Len(documents)
        /\ \A i \in 1..Len(documents) : result.individual_document_scores[2][i] = JNum(0)

\* Two records were verified, the service answered a list where an object was due,
\* and the result holds two zeros.
C1_Witness ==
    /\ Verified
    /\ Len(documents) = 2
    /\ reply.text = <<"[", "90", "]">>
    /\ VerifyFailure = "AttributeError"
    /\ result.individual_document_scores = JList(<<JNum(0), JNum(0)>>)

\* C2: every result of a verification, degraded or not, holds exactly one score for
\* each record, whatever the service put in individual_document_scores or left out.
C2_OneScorePerRecord ==
    Verified =>
        /\ result.individual_document_scores[1] = "list"
        /\ Len(result.individual_document_scores[2]) = Len(documents)

\* C3: extraction never raises: when the image cannot be read or the reasoning call
\* fails, it returns a record with an empty field map, empty raw text and confidence
\* 0 that carries the given kind and source reference.
C3_ExtractNeverRaises ==
    Extracted =>
        /\ ~result.raised
        /\ (~Readable(args.image_path) \/ reply.raises) =>
              result.val = [extracted_data |-> JObj(EmptyDict),
                            raw_text |-> JStr(<<>>),
                            document_type |-> args.document_type,
                            confidence |-> JNum(0),
                            file_path |-> args.image_path]

\* The image of a PAN card could not be opened, the service was not asked, and the
\* caller holds a record of confidence 0.
C3_Witness ==
    /\ Extracted
    /\ ~Readable(args.image_path)
    /\ args.document_type = "PAN"
    /\ calls = 0
    /\ ~result.raised
    /\ result.val.confidence = JNum(0)
    /\ result.val.document_type = "PAN"

\* C4: a reply that wraps a valid object J in a tagged or bare fence gives exactly
\* the verification result that J gives unwrapped, also when a string of J holds a
\* fence delimiter.
C4_FencedSameAsUnwrapped ==
    (Verified /\ ~reply.raises /\ IsWrapped(reply.text) /\ ValidObject(Unwrapped(reply.text)))
        => result = VerifyDocuments(documents, Replies(Unwrapped(reply.text)))

\* C5: a comparison whose reply wraps a valid object in a tagged or bare fence
\* returns that object, as it does for the object unwrapped, not the degraded result.
C5_CompareStripsFences ==
    (Compared /\ calls = 1 /\ ~reply.raises /\ IsWrapped(reply.text)
        /\ ValidObject(Unwrapped(reply.text)))
        => result = JsonLoads(Unwrapped(reply.text)).val

\* The reasoning call of a comparison raised, or its text is no structured data with
\* or without its fence.
CompareFailure ==
    /\ calls = 1
    /\ IF reply.raises THEN TRUE
       ELSE ~JsonLoads(reply.text).ok /\ ~JsonLoads(VerifyCleanResponse(reply.text)).ok

IsMessage(x) == x[1] = "str" /\ x[2] # <<>>

\* C6: when the reasoning call of a comparison raises or its response fails to
\* parse, the comparison returns matches false, confidence 0, recommendation
\* MANUAL_REVIEW and a message in its analysis or its differences.
C6_DegradedComparison ==
    (Compared /\ CompareFailure) =>
        /\ result[1] = "obj"
        /\ DictGet(result, K("matches"), None) = JBool(FALSE)
        /\ DictGet(result, K("confidence"), None) = JNum(0)
        /\ DictGet(result, K("recommendation"), None) = JStr(<<"MANUAL_REVIEW">>)
        /\ IF K("differences") \in DOMAIN result[2]
           THEN /\ result[2][K("differences")][1] = "list"
                /\ result[2][K("differences")][2] # <<>>
                /\ IsMessage(DictGet(result, K("analysis"), None))
           ELSE IsMessage(DictGet(result, K("analysis"), None))

\* C13: the confidence of every verification result is a number from 0 to 100,
\* whatever confidence the service's response carries.
C13_ConfidenceInRange ==
    Verified =>
        /\ result.confidence[1] = "num"
        /\ result.confidence[2] >= 0
        /\ result.confidence[2] <= 100

\* A comparison result: an object with a matches entry.
IsComparisonResult(x) == x[1] = "obj" /\ K("matches") \in DOMAIN x[2]

\* C14: when the stored reference cannot be fetched, the caller gets a failure
\* signal that is no comparison result, and the reasoning service is not asked.
C14_FetchFailureIsNoComparison ==
    (pc = "compared_stored" /\ TryFetch(fetch).raised) =>
        /\ calls = 0
        /\ ~IsComparisonResult(result)

\* C15: a verification asks the reasoning service exactly once, with one request
\* that covers every record, and never again after the call or the parsing failed.
C15_OneInvocation ==
    /\ pc = "verify" => calls = 0
    /\ pc \in {"verify_replied", "verified"} =>
          /\ calls = 1
          /\ request.n = Len(documents)
          /\ \A i \in 1..Len(documents) :
                /\ request.blocks[i].index = i
                /\ request.blocks[i].extracted_data = documents[i].extracted_data

\* Two records were verified, the service's text did not parse, and the service was
\* asked once.
C15_Witness ==
    /\ Verified
    /\ Len(documents) = 2
    /\ VerifyFailure = "JSONDecodeError"
    /\ calls = 1
    /\ result.confidence = JNum(0)

\* The verification succeeded: the call answered and the text parsed to an object.
VerifySucceeded == VerifyFailure = "none"

\* C18: same_identity is always a boolean, and it is true only when the call
\* succeeded, the response parsed to an object, and the object's
\* belongs_to_same_person is the boolean true.
C18_SameIdentityIsBoolean ==
    Verified =>
        /\ result.belongs_to_same_person[1] = "bool"
        /\ result.belongs_to_same_person = JBool(TRUE) =>
              /\ VerifySucceeded
              /\ DictGet(JsonLoads(VerifyCleanResponse(reply.text)).val,
                         K("belongs_to_same_person"), None) = JBool(TRUE)

\* C17: on the strict path, the fallback path and the failure path alike, the
\* confidence of the record extraction returns is the score of the record's own
\* fields, and lies within 0 to 100.
C17_ConfidenceIsScoreOfFields ==
    Extracted =>
        /\ ~result.raised
        /\ ~CalculateConfidence(result.val.extracted_data).raised
        /\ result.val.confidence =
              JNum(CalculateConfidence(result.val.extracted_data).val)
        /\ result.val.confidence[2] >= 0
        /\ result.val.confidence[2] <= 100

\* Free text went through the fallback parser and the record carries the score of
\* the fields found there.
C17_Witness ==
    /\ Extracted
    /\ reply.text = PanPlain
    /\ result.val.extracted_data[1] = "obj"
    /\ K("pan") \in DOMAIN result.val.extracted_data[2]
    /\ result.val.confidence[2] > 0
    /\ result.val.confidence = JNum(CalculateConfidence(result.val.extracted_data).val)

\* C19: whatever text the service returns to an extraction, structured data that
\* is not an object included, the fields of the record are a mapping.
C19_FieldsAreAMapping == Extracted => result.val.extracted_data[1] = "obj"

(***************************************************************************)
(* The fallback parsers on their own                                       *)
(***************************************************************************)
MaxTextLen == 4

\* parse_text_response of the integration helper: three of the patterns, the
\* number under the key aadhaar_number.
ParseTextResponse(text) ==
    Bind(Chars(text), LAMBDA c :
    Bind(PutMatch(EmptyDict, "name", FirstMatch(c, NameAt)), LAMBDA r1 :
    Bind(PutMatch(r1, "aadhaar_number", FirstMatch(c, AadhaarAt)), LAMBDA r2 :
         JObj(PutMatch(r2, "date_of_birth", FirstMatch(c, DobAt))))))

\* What a call of the fallback parser gives when .group(1) is read without the
\* test for a match: a pattern that found nothing raises.
FallbackUnguarded(text, document_type) ==
    Bind(ParseUnstructuredText(text, document_type), LAMBDA d :
         IF DOMAIN d[2] = {K("name"), K("aadhaar"), K("pan"), K("date_of_birth"), K("mobile")}
         THEN Returned(d) ELSE Raised("AttributeError"))

\* What a call of the fallback parser gives its caller: .group(1).strip() is read
\* only under "if match", and group 1 takes part in every match.
Fallback(text, document_type) == Returned(ParseUnstructuredText(text, document_type))

\* The lexemes the texts are made of: a label, separators, a letter, digits.
TextLexemes == {"name", ":", SP, "A", "5", "1234"}

FallbackTexts == SeqsUpTo(TextLexemes, MaxTextLen)

InitParse ==
    /\ pc = "parse_call"
    /\ fields = None
    /\ filled = NoFill
    /\ documents = <<>>
    /\ args \in {[text |-> t, document_type |-> k] : t \in FallbackTexts, k \in DocumentTypes}
    /\ fetch = None
    /\ request = None
    /\ reply = NoReply
    /\ calls = 0
    /\ result = None

\* extracted_data = self._parse_unstructured_text(result_text, document_type)
ParseFallback ==
    /\ pc = "parse_call"
    /\ pc' = "parsed"
    /\ result' = Fallback(args.text, args.document_type)
    /\ UNCHANGED <<fields, filled, documents, args, fetch, request, reply, calls>>

\* ocr_json = parse_text_response(result)
ParseResponse ==
    /\ pc = "parse_call"
    /\ pc' = "parsed_response"
    /\ result' = Returned(ParseTextResponse(args.text))
    /\ UNCHANGED <<fields, filled, documents, args, fetch, request, reply, calls>>

NextParse == ParseFallback \/ ParseResponse

SpecParse == InitParse /\ [][NextParse]_vars

Parsed == pc \in {"parsed", "parsed_response"}

\* Whether the characters hold a name label, and whether they hold twelve digits
\* with at most one white space after the fourth and after the eighth.
HasNameLabel(c) == \E p \in 1..Len(c) : LiteralAt(c, p, Spelling("name"))
HasDigits(c) == \E p \in 1..Len(c) : c[p] \in Digits

\* C11: the fallback parser never raises, the empty text included, and a text in
\* which no pattern matches gives the empty field map.
C11_FallbackNeverRaises ==
    Parsed =>
        /\ ~result.raised
        /\ result.val[1] = "obj"
        /\ (~HasNameLabel(Chars(args.text)) /\ ~HasDigits(Chars(args.text)))
              => result.val = JObj(EmptyDict)

\* The empty text was parsed and the empty field map came back.
C11_Witness ==
    /\ pc = "parsed"
    /\ args.text = <<>>
    /\ ~result.raised
    /\ result.val = JObj(EmptyDict)

\* C12: a key is in the parser's result only if its pattern matched, and no key is
\* mapped to the empty string.
C12_NoEmptyValue ==
    Parsed =>
        /\ (K("name") \in DOMAIN result.val[2]) => FirstMatch(Chars(args.text), NameAt).ok
        /\ (K("aadhaar") \in DOMAIN result.val[2]) => FirstMatch(Chars(args.text), AadhaarAt).ok
        /\ \A k \in DOMAIN result.val[2] : result.val[2][k] # JStr(<<>>)

(***************************************************************************)
(* Several callers at once                                                 *)
(*                                                                         *)
(* Every operation keeps what it works on in local variables; the one      *)
(* thing that outlives a call is self.model (the module's model in the     *)
(* helpers), assigned at construction and only read afterwards.  Here pc,  *)
(* args, reply, calls and result hold one entry for each caller.           *)
(***************************************************************************)
NumCallers == 2
Callers == 1..NumCallers

\* One slot for all callers in place of a local variable: a caller finds there what
\* the first caller with a reply left.
LocalShared(locals, c) ==
    locals[CHOOSE d \in DOMAIN locals :
              /\ pc[d] \in {"replied", "returned"}
              /\ \A e \in DOMAIN locals : pc[e] \in {"replied", "returned"} => d <= e]

\* The local variable of caller c.
Local(locals, c) == locals[c]

ConcurrentCalls ==
    {[op |-> "extract", image_path |-> p, document_type |-> "aadhaar"] : p \in ImagePaths}
    \cup {[op |-> "verify", documents |-> d] :
             d \in {<<>>, <<ExtractFailure(<<"uploads", "missing.jpg">>, "PAN")>>}}
    \cup {[op |-> "compare", new_document |-> ExtractFailure(<<"uploads", "missing.jpg">>, "PAN")]}

ConcurrentReplies ==
    {Raises("ServiceUnavailable"), Replies(AadhaarJson), Replies(PanPlain),
     Replies(Fenced(ObjectText(<<Member("belongs_to_same_person", <<"true">>),
                                 Member("confidence", <<"90">>),
                                 Member("matches", <<"true">>)>>)))}

\* What the operation of call a returns for the reply r when it runs alone.
RunAlone(a, r) ==
    CASE a.op = "extract" ->
            ExtractDocumentData(a.image_path, a.document_type, Readable(a.image_path), r).val
      [] a.op = "verify" -> VerifyDocuments(a.documents, r)
      [] a.op = "compare" -> CompareWithStoredReference(r)

InitConcurrent ==
    /\ pc = [c \in Callers |-> "idle"]
    /\ fields = None
    /\ filled = NoFill
    /\ documents = <<>>
    /\ args = [c \in Callers |-> None]
    /\ fetch = None
    /\ request = None
    /\ reply = [c \in Callers |-> NoReply]
    /\ calls = [c \in Callers |-> 0]
    /\ result = [c \in Callers |-> None]

\* Caller c starts an operation.
ConcurrentCall(c) ==
    /\ pc[c] = "idle"
    /\ \E a \in ConcurrentCalls : args' = [args EXCEPT ![c] = a]
    /\ pc' = [pc EXCEPT ![c] = "called"]
    /\ UNCHANGED <<fields, filled, documents, fetch, request, reply, calls, result>>

\* The service answers the request of caller c.
ConcurrentInvoke(c) ==
    /\ pc[c] = "called"
    /\ \E r \in ConcurrentReplies : reply' = [reply EXCEPT ![c] = r]
    /\ calls' = [calls EXCEPT ![c] = calls[c] + 1]
    /\ pc' = [pc EXCEPT ![c] = "replied"]
    /\ UNCHANGED <<fields, filled, documents, args, fetch, request, result>>

\* The operation of caller c works on its local variables and returns.
ConcurrentReturn(c) ==
    /\ pc[c] = "replied"
    /\ result' = [result EXCEPT ![c] = RunAlone(Local(args, c), Local(reply, c))]
    /\ pc' = [pc EXCEPT ![c] = "returned"]
    /\ UNCHANGED <<fields, filled, documents, args, fetch, request, reply, calls>>

NextConcurrent ==
    \E c \in Callers : ConcurrentCall(c) \/ ConcurrentInvoke(c) \/ ConcurrentReturn(c)

SpecConcurrent == InitConcurrent /\ [][NextConcurrent]_vars

====
